---- MODULE Spec2Model ----
(***************************************************************************)
(* Model of the two helper scripts convert_to_webp.py and                  *)
(* make_thumbnails.py: the directory traversal and filter, the staleness   *)
(* check on modification times, the per-file try/except with its counters, *)
(* the optional deletion of originals, and the image transform's colour    *)
(* mode and metadata handling.                                             *)
(*                                                                         *)
(* The filesystem is a function from paths to file records.  A path is a   *)
(* record of the directory components below the root, the stem and the     *)
(* suffix of the file name.  Directory entries yielded by rglob are        *)
(* dropped by is_file() before anything else happens and are not entries   *)
(* of the model.  A destination written during a run is never eligible    *)
(* itself (DstNeverEligible), so whether the lazy rglob still yields it    *)
(* changes no counter; such entries are not entries of the model either.   *)
(* Failures of stat, of the Pillow calls and of unlink are choices of the  *)
(* environment, at most MaxFaults of them in one behaviour.  Spec is one   *)
(* run with such failures, SpecRerun is a sequence of runs of the same     *)
(* command without them, SpecTransform is the transform of one image.      *)
(***************************************************************************)
EXTENDS Integers, Sequences, FiniteSets, TLC

MaxTime == 1
MaxRuns == 2
MaxFiles == 2
MaxFaults == 1

VARIABLES tool, overwrite, delete_originals, skip_folder,
          now, fs, fsStart, run, phase, pending,
          converted, skipped, errors, deleted, exit_code,
          st, prev, started, faults,
          img, im, stage, keep_metadata, save_kwargs

runVars == <<tool, overwrite, delete_originals, skip_folder,
             now, fs, fsStart, run, phase, pending,
             converted, skipped, errors, deleted, exit_code,
             st, prev, started, faults>>
imgVars == <<img, im, stage, keep_metadata, save_kwargs>>
vars == <<runVars, imgVars>>

(***************************************************************************)
(* Paths and names                                                         *)
(***************************************************************************)
CONVERT_EXTS == {".jpg", ".jpeg", ".png", ".tif", ".tiff", ".bmp", ".gif"}
WEBP_EXTS == {".webp"}
IMAGE_EXTS == {".jpg", ".jpeg", ".png", ".webp", ".tif", ".tiff", ".bmp", ".gif"}
THUMB_DIR_NAME == "thumbnails"

Path(d, s, e) == [dir |-> d, stem |-> s, ext |-> e]
NoPath == Path(<<>>, "", "")

\* root.resolve(): the absolute path of the root, whose components are part
\* of every src.parts; --skip-folder Site therefore skips the whole tree
RootParts == <<"/", "site">>

\* The files a root may hold at the start of a run.
SrcUniverse ==
    { Path(<<>>, "a", ".JPG"), Path(<<>>, "a", ".png"),
      Path(<<>>, "a", ".webp"), Path(<<>>, "a", ".WEBP"),
      Path(<<"thumbnails">>, "a", ".webp"),
      Path(<<"Thumbnails">>, "a", ".png") }

\* str.lower() on the names that occur; every other name of the universe is
\* already lower case
Lower(s) ==
    CASE s = "Thumbnails" -> "thumbnails"
      [] s = "Site"       -> "site"
      [] s = ".JPG"       -> ".jpg"
      [] s = ".WEBP"      -> ".webp"
      [] s = "a.JPG"      -> "a.jpg"
      [] s = "a.WEBP"     -> "a.webp"
      [] OTHER            -> s

Name(p) == p.stem \o p.ext
Parts(p) == RootParts \o p.dir \o <<Name(p)>>
Suffix(p) == p.ext
WithSuffix(p, e) == [p EXCEPT !.ext = e]

is_in_folder_named(path, folder_name) ==
    LET fn == Lower(folder_name)
    IN  \E i \in DOMAIN Parts(path) : Lower(Parts(path)[i]) = fn

skip_folders == { Lower(skip_folder[i]) : i \in DOMAIN skip_folder }

\* the suffix appended to the whole name instead of replacing the old one
DstConvertAppended(src) == [src EXCEPT !.stem = Name(src), !.ext = ".webp"]

DstConvert(src) == WithSuffix(src, ".webp")
DstThumb(src) ==
    WithSuffix([src EXCEPT !.dir = src.dir \o <<THUMB_DIR_NAME>>], ".webp")
Dst(t, src) == IF t = "convert" THEN DstConvert(src) ELSE DstThumb(src)

AllPaths == SrcUniverse \cup { DstConvert(p) : p \in SrcUniverse }
                        \cup { DstThumb(p) : p \in SrcUniverse }

(***************************************************************************)
(* Filesystem                                                              *)
(***************************************************************************)
NoFile == [exists |-> FALSE, mtime |-> 0, size |-> 0, kind |-> "none", from |-> NoPath]
OrigFile(t) == [exists |-> TRUE, mtime |-> t, size |-> 1, kind |-> "orig", from |-> NoPath]
WebpOf(src, t) == [exists |-> TRUE, mtime |-> t, size |-> 1, kind |-> "webp", from |-> src]
PartialFile(t) == [exists |-> TRUE, mtime |-> t, size |-> 0, kind |-> "partial", from |-> NoPath]

is_file(f, p) == f[p].exists

\* the filter with the image extensions of make_thumbnails.py and without
\* the test against WEBP_EXTS
EligibleConvertAnyImage(f, p) ==
    /\ is_file(f, p)
    /\ ~ \E name \in skip_folders : is_in_folder_named(p, name)
    /\ Lower(Suffix(p)) \in {".jpg", ".jpeg", ".png", ".webp", ".tif", ".tiff", ".bmp", ".gif"}

\* convert_to_webp.py: the filter of the loop body
EligibleConvert(f, p) ==
    /\ is_file(f, p)
    /\ ~ \E name \in skip_folders : is_in_folder_named(p, name)
    /\ Lower(Suffix(p)) \notin WEBP_EXTS
    /\ Lower(Suffix(p)) \in CONVERT_EXTS

is_image(f, p) == is_file(f, p) /\ Lower(Suffix(p)) \in IMAGE_EXTS

\* make_thumbnails.py: the filter of the loop body
EligibleThumb(f, p) ==
    /\ is_image(f, p)
    /\ ~ \E i \in DOMAIN Parts(p) : Parts(p)[i] = THUMB_DIR_NAME

Eligible(f, p) == IF tool = "convert" THEN EligibleConvert(f, p) ELSE EligibleThumb(f, p)

\* the comparison made strict
is_up_to_date_strict(f, src, dst) == f[dst].exists /\ f[dst].mtime > f[src].mtime

is_up_to_date(f, src, dst) == f[dst].exists /\ f[dst].mtime >= f[src].mtime

\* --overwrite ignored
NeedsWorkNoOverride(f, src, dst) == ~ (f[dst].exists /\ f[dst].mtime >= f[src].mtime)

NeedsWork(f, src, dst) == overwrite \/ ~ is_up_to_date(f, src, dst)

\* the conventional failure status 1 in place of 2
ExitStatusOne(e) == IF e = 0 THEN 0 ELSE 1

ExitStatus(e) == IF e = 0 THEN 0 ELSE 2

\* the instants at which a write started at clock value t can complete
WriteTimes(t) == { u \in t..(t + 1) : u <= MaxTime }

Existing(f) == { p \in AllPaths : f[p].exists }

NoImg == [mode |-> "RGB", transparency |-> FALSE, icc_profile |-> FALSE,
          exif |-> FALSE, orientation |-> 1]
NoKwargs == [mode |-> "none", icc_profile |-> FALSE, exif |-> FALSE]

ImgIdle ==
    /\ img = NoImg
    /\ im = NoImg
    /\ stage = "idle"
    /\ keep_metadata = FALSE
    /\ save_kwargs = NoKwargs

(***************************************************************************)
(* The run: main() of both scripts                                         *)
(***************************************************************************)
Init ==
    /\ tool \in {"convert", "thumbs"}
    /\ overwrite \in BOOLEAN
    /\ delete_originals \in (IF tool = "convert" THEN BOOLEAN ELSE {FALSE})
    /\ skip_folder \in (IF tool = "convert"
                          THEN {<<"thumbnails">>, <<"thumbnails", "Site">>}
                          ELSE {<<"thumbnails">>})
    /\ now = 0
    /\ \E S \in SUBSET SrcUniverse :
         /\ Cardinality(S) <= MaxFiles
         /\ \E mt \in [S -> 0..MaxTime] :
              fs = [p \in AllPaths |-> IF p \in S THEN OrigFile(mt[p]) ELSE NoFile]
    /\ fsStart = fs
    /\ run = 1
    /\ phase = "running"
    /\ pending = Existing(fs)
    /\ converted = 0 /\ skipped = 0 /\ errors = 0 /\ deleted = 0
    /\ exit_code = -1
    /\ st = [p \in AllPaths |-> "none"]
    /\ started = now
    /\ prev = [errors |-> 0, started |-> 0]
    /\ faults = 0
    /\ ImgIdle

Mark(p, k) == [st EXCEPT ![p] = k]

args == <<tool, overwrite, delete_originals, skip_folder, started>>

\* `continue` of one of the filters: nothing is counted
Filtered(p) ==
    /\ phase = "running" /\ p \in pending
    /\ ~ Eligible(fs, p)
    /\ pending' = pending \ {p}
    /\ st' = Mark(p, "filtered")
    /\ UNCHANGED <<args, now, fs, fsStart, run, phase, converted, skipped, errors,
                   deleted, exit_code, prev, faults>>
    /\ UNCHANGED imgVars

\* the exception swallowed without counting it
CheckFailsUncounted(p) ==
    /\ phase = "running" /\ p \in pending
    /\ Eligible(fs, p)
    /\ ~ overwrite
    /\ faults < MaxFaults
    /\ faults' = faults + 1
    /\ pending' = pending \ {p}
    /\ st' = Mark(p, "failed_check")
    /\ UNCHANGED <<args, now, fs, fsStart, run, phase, converted, skipped, errors,
                   deleted, exit_code, prev>>
    /\ UNCHANGED imgVars

\* is_up_to_date raises (a stat fails): caught, counted as an error
CheckFails(p) ==
    /\ phase = "running" /\ p \in pending
    /\ Eligible(fs, p)
    /\ ~ overwrite
    /\ faults < MaxFaults
    /\ faults' = faults + 1
    /\ pending' = pending \ {p}
    /\ errors' = errors + 1
    /\ st' = Mark(p, "failed_check")
    /\ UNCHANGED <<args, now, fs, fsStart, run, phase, converted, skipped,
                   deleted, exit_code, prev>>
    /\ UNCHANGED imgVars

SkipUpToDate(p) ==
    /\ phase = "running" /\ p \in pending
    /\ Eligible(fs, p)
    /\ ~ NeedsWork(fs, p, Dst(tool, p))
    /\ pending' = pending \ {p}
    /\ skipped' = skipped + 1
    /\ st' = Mark(p, "skipped")
    /\ UNCHANGED <<args, now, fs, fsStart, run, phase, converted, errors,
                   deleted, exit_code, prev, faults>>
    /\ UNCHANGED imgVars

Unlink(f, src) == [f EXCEPT ![src] = NoFile]

\* the source unlinked on the failure path as well
AfterFailureUnlinked(f, src) == Unlink(f, src)

\* the except clause: the source is left as it is
AfterFailure(f, src) == f

\* convert_one / make_thumbnail raises: in Image.open or the transform (the
\* destination is untouched) or in im.save (the destination is left partial)
TransformFails(p) ==
    /\ phase = "running" /\ p \in pending
    /\ Eligible(fs, p)
    /\ NeedsWork(fs, p, Dst(tool, p))
    /\ faults < MaxFaults
    /\ faults' = faults + 1
    /\ \/ /\ fs' = AfterFailure(fs, p)
          /\ now' = now
       \/ \E t \in WriteTimes(now) :
            /\ fs' = AfterFailure([fs EXCEPT ![Dst(tool, p)] = PartialFile(t)], p)
            /\ now' = t
    /\ pending' = pending \ {p}
    /\ errors' = errors + 1
    /\ st' = Mark(p, "failed_transform")
    /\ UNCHANGED <<args, fsStart, run, phase, converted, skipped,
                   deleted, exit_code, prev>>
    /\ UNCHANGED imgVars

\* the destination as convert_one / make_thumbnail leaves it on success
Written(f, src, dst, t) == [f EXCEPT ![dst] = WebpOf(src, t)]

\* the guard of src.unlink()
MayUnlink(f, dst) == f[dst].exists /\ f[dst].size > 0

\* the transform succeeds; with --delete-originals the source is unlinked
\* when the destination is seen to exist with a positive size
ConvertOk(p) ==
    /\ phase = "running" /\ p \in pending
    /\ Eligible(fs, p)
    /\ NeedsWork(fs, p, Dst(tool, p))
    /\ \E t \in WriteTimes(now) :
         LET dst == Dst(tool, p)
             f1  == Written(fs, p, dst, t)
             del == tool = "convert" /\ delete_originals /\ MayUnlink(f1, dst)
         IN  /\ now' = t
             /\ fs' = IF del THEN Unlink(f1, p) ELSE f1
             /\ deleted' = IF del THEN deleted + 1 ELSE deleted
    /\ pending' = pending \ {p}
    /\ converted' = converted + 1
    /\ st' = Mark(p, "converted")
    /\ UNCHANGED <<args, fsStart, run, phase, skipped, errors, exit_code, prev, faults>>
    /\ UNCHANGED imgVars

\* the transform succeeds, then dst.stat() or src.unlink() raises
DeleteFails(p) ==
    /\ phase = "running" /\ p \in pending
    /\ Eligible(fs, p)
    /\ NeedsWork(fs, p, Dst(tool, p))
    /\ tool = "convert" /\ delete_originals
    /\ faults < MaxFaults
    /\ faults' = faults + 1
    /\ \E t \in WriteTimes(now) :
         /\ now' = t
         /\ fs' = AfterFailure(Written(fs, p, Dst(tool, p), t), p)
    /\ pending' = pending \ {p}
    /\ converted' = converted + 1
    /\ errors' = errors + 1
    /\ st' = Mark(p, "failed_delete")
    /\ UNCHANGED <<args, fsStart, run, phase, skipped, deleted, exit_code, prev>>
    /\ UNCHANGED imgVars

\* the loop is exhausted: the summary is printed and main returns
Finish ==
    /\ phase = "running" /\ pending = {}
    /\ phase' = "done"
    /\ exit_code' = ExitStatus(errors)
    /\ UNCHANGED <<args, now, fs, fsStart, run, pending, converted, skipped, errors,
                   deleted, st, prev, faults>>
    /\ UNCHANGED imgVars

\* the same command is run again on the tree the previous run left
StartRun ==
    /\ phase = "done" /\ run < MaxRuns
    /\ run' = run + 1
    /\ phase' = "running"
    /\ prev' = [errors |-> errors, started |-> started]
    /\ started' = now
    /\ fsStart' = fs
    /\ pending' = Existing(fs)
    /\ converted' = 0 /\ skipped' = 0 /\ errors' = 0 /\ deleted' = 0
    /\ exit_code' = -1
    /\ st' = [p \in AllPaths |-> "none"]
    /\ UNCHANGED <<tool, overwrite, delete_originals, skip_folder, now, fs, faults>>
    /\ UNCHANGED imgVars

Step ==
    \/ \E p \in AllPaths : Filtered(p)
    \/ \E p \in AllPaths : CheckFails(p)
    \/ \E p \in AllPaths : SkipUpToDate(p)
    \/ \E p \in AllPaths : TransformFails(p)
    \/ \E p \in AllPaths : ConvertOk(p)
    \/ \E p \in AllPaths : DeleteFails(p)

\* one run of one of the scripts
Next ==
    \/ Step
    \/ Finish

Spec == Init /\ [][Next]_vars

\* the single-threaded loop always takes its next step and returns
LiveSpec == Spec /\ WF_vars(Step) /\ WF_vars(Finish)

\* successive runs of the same command in which no call fails
NextRerun ==
    \/ \E p \in AllPaths : Filtered(p)
    \/ \E p \in AllPaths : SkipUpToDate(p)
    \/ \E p \in AllPaths : ConvertOk(p)
    \/ Finish
    \/ StartRun

SpecRerun == Init /\ [][NextRerun]_vars

(***************************************************************************)
(* The transform: convert_one and make_thumbnail on one decoded image      *)
(***************************************************************************)
Modes == {"RGB", "RGBA", "P", "L", "LA", "CMYK"}
Orientations == 1..8

\* the images Image.open returns: a palette image with or without a
\* transparency entry in im.info, and the modes without one; the orientation
\* tag is part of the EXIF block
Images ==
    { i \in [mode : Modes, transparency : BOOLEAN, icc_profile : BOOLEAN,
             exif : BOOLEAN, orientation : Orientations] :
        /\ i.transparency => i.mode = "P"
        /\ ~ i.exif => i.orientation = 1 }

RunIdle ==
    /\ overwrite = FALSE /\ delete_originals = FALSE
    /\ skip_folder = <<"thumbnails">>
    /\ now = 0 /\ started = 0
    /\ fs = [p \in AllPaths |-> NoFile]
    /\ fsStart = fs
    /\ run = 1 /\ phase = "transform" /\ pending = {}
    /\ converted = 0 /\ skipped = 0 /\ errors = 0 /\ deleted = 0
    /\ exit_code = -1
    /\ st = [p \in AllPaths |-> "none"]
    /\ prev = [errors |-> 0, started |-> 0]
    /\ faults = 0

InitTransform ==
    /\ tool \in {"convert", "thumbs"}
    /\ RunIdle
    /\ img \in Images
    /\ im = img
    /\ stage = "opened"
    /\ keep_metadata \in BOOLEAN
    /\ save_kwargs = NoKwargs

\* ImageOps.exif_transpose: the pixels are turned upright and the tag removed
exif_transpose(i) == [i EXCEPT !.orientation = 1]

\* im.convert(mode): the converted image has no transparency entry left
Convert(i, m) == [i EXCEPT !.mode = m, !.transparency = FALSE]

NormalizeConvert(i) ==
    IF i.mode \notin {"RGB", "RGBA"}
      THEN IF i.transparency THEN Convert(i, "RGBA") ELSE Convert(i, "RGB")
      ELSE i

NormalizeThumb(i) ==
    IF i.mode \notin {"RGB", "RGBA"} THEN Convert(i, "RGB") ELSE i

Normalize(t, i) == IF t = "convert" THEN NormalizeConvert(i) ELSE NormalizeThumb(i)

SaveKwargs(i, keep) ==
    [mode |-> i.mode, icc_profile |-> i.icc_profile, exif |-> keep /\ i.exif]

Transpose ==
    /\ stage = "opened"
    /\ im' = exif_transpose(im)
    /\ stage' = "transposed"
    /\ UNCHANGED <<img, keep_metadata, save_kwargs>>
    /\ UNCHANGED runVars

NormalizeMode ==
    /\ stage = "transposed"
    /\ im' = Normalize(tool, im)
    /\ stage' = "normalized"
    /\ UNCHANGED <<img, keep_metadata, save_kwargs>>
    /\ UNCHANGED runVars

\* im.thumbnail / ImageOps.fit: the pixel size changes, mode and info stay
Resize ==
    /\ stage = "normalized" /\ tool = "thumbs"
    /\ stage' = "resized"
    /\ UNCHANGED <<img, im, keep_metadata, save_kwargs>>
    /\ UNCHANGED runVars

Save ==
    /\ stage = (IF tool = "thumbs" THEN "resized" ELSE "normalized")
    /\ save_kwargs' = SaveKwargs(im, keep_metadata)
    /\ stage' = "saved"
    /\ UNCHANGED <<img, im, keep_metadata>>
    /\ UNCHANGED runVars

NextTransform ==
    \/ Transpose
    \/ NormalizeMode
    \/ Resize
    \/ Save

SpecTransform == InitTransform /\ [][NextTransform]_vars

(***************************************************************************)
(* Properties                                                              *)
(***************************************************************************)
TypeOK ==
    /\ phase \in {"running", "done", "transform"}
    /\ pending \subseteq AllPaths
    /\ now \in 0..MaxTime
    /\ faults \in 0..MaxFaults
    /\ stage \in {"idle", "opened", "transposed", "normalized", "resized", "saved"}

\* A destination written by a run never passes the filter of that run.
DstNeverEligible ==
    \A p \in AllPaths : fs[p].kind \in {"webp", "partial"} => ~ Eligible(fs, p)

Root_a_JPG == Path(<<>>, "a", ".JPG")
Root_a_png == Path(<<>>, "a", ".png")
Root_a_webp == Path(<<>>, "a", ".webp")
Root_a_WEBP == Path(<<>>, "a", ".WEBP")

\* p is a source the step under consideration takes into its try block
Handles(p) ==
    /\ p \in pending /\ p \notin pending'
    /\ converted' + skipped' + errors' > converted + skipped + errors

\* the sources of the current run that have gone through the try block
HandledSoFar == { p \in AllPaths : Eligible(fsStart, p) /\ p \notin pending }

\* p existed when the current run started and is gone
Removed(p) == fsStart[p].exists /\ ~ fs[p].exists

HoldsConversionOf(f, dst, src) ==
    f[dst].exists /\ f[dst].kind = "webp" /\ f[dst].from = src

\* C1: in convert-to-webp with --delete-originals a source disappears only in
\* the step that has written its destination and found it to exist with a
\* positive size, and a source whose conversion failed or that was skipped
\* as up to date still exists, during and at the end of the run.
C1_DeleteOnlyAfterVerifiedWrite ==
    [][ (tool = "convert" /\ delete_originals /\ phase = "running") =>
          \A s \in AllPaths :
            /\ (fs[s].exists /\ ~ fs'[s].exists) =>
                 /\ s \in pending /\ s \notin pending'
                 /\ converted' = converted + 1
                 /\ errors' = errors
                 /\ deleted' = deleted + 1
                 /\ fs'[DstConvert(s)].exists
                 /\ fs'[DstConvert(s)].size > 0
                 /\ HoldsConversionOf(fs', DstConvert(s), s)
                 /\ fs'[DstConvert(s)].mtime = now'
            /\ (st'[s] \in {"skipped", "failed_transform"}) => fs'[s].exists ]_vars

C1_Witness ==
    /\ tool = "convert" /\ delete_originals /\ phase = "done"
    /\ \E s, u \in AllPaths :
         /\ Removed(s) /\ fs[DstConvert(s)].size > 0
         /\ st[u] \in {"skipped", "failed_transform"} /\ fs[u].exists

EligibleAtStart == { p \in AllPaths : Eligible(fsStart, p) }

\* no source of the current run carried, when the previous run started, a
\* modification time later than the clock
NoFutureSourceBefore == \A p \in EligibleAtStart : fsStart[p].mtime <= prev.started

SkipCondition(p) ==
    /\ ~ overwrite
    /\ fs[Dst(tool, p)].exists
    /\ fs[Dst(tool, p)].mtime >= fs[p].mtime

Regenerated(p) ==
    /\ HoldsConversionOf(fs', Dst(tool, p), p)
    /\ fs'[Dst(tool, p)].mtime = now'

\* C3 (as claimed): an eligible source is skipped, its destination left as it
\* is, iff --overwrite is absent and the destination exists with an mtime not
\* older than the source's; in every other case the transform is invoked and
\* the destination is regenerated.
C3_SkipIffUpToDate ==
    [][ \A p \in AllPaths : Handles(p) =>
          IF SkipCondition(p)
            THEN skipped' = skipped + 1 /\ fs'[Dst(tool, p)] = fs[Dst(tool, p)]
            ELSE /\ skipped' = skipped
                 /\ st'[p] \in {"converted", "failed_transform", "failed_delete"}
                 /\ Regenerated(p) ]_vars

\* C3 (amended): skipped iff the staleness check does not raise and finds
\* --overwrite absent and the destination present and not older; when the
\* check does not raise and the condition is false the transform is invoked,
\* and the destination is regenerated whenever the transform does not raise.
C3_SkipIffUpToDateAmended ==
    [][ \A p \in AllPaths : Handles(p) =>
          /\ (skipped' = skipped + 1) <=>
                (SkipCondition(p) /\ st'[p] # "failed_check")
          /\ (skipped' = skipped + 1) => (fs' = fs /\ converted' = converted)
          /\ (~ SkipCondition(p) /\ st'[p] # "failed_check") =>
                st'[p] \in {"converted", "failed_transform", "failed_delete"}
          /\ (converted' = converted + 1) => (~ SkipCondition(p) /\ Regenerated(p))
          /\ (st'[p] = "converted") <=> (converted' = converted + 1 /\ errors' = errors) ]_vars

C3_Witness ==
    /\ overwrite /\ phase = "done" /\ run = 1
    /\ \E p \in AllPaths :
         /\ st[p] = "converted"
         /\ fsStart[Dst(tool, p)].exists
         /\ fsStart[Dst(tool, p)].mtime >= fsStart[p].mtime
         /\ HoldsConversionOf(fs, Dst(tool, p), p)

\* C4: a failure on one file never aborts the run: it adds one to the error
\* counter and leaves the loop running on the remaining candidates; every
\* run reaches its summary, having considered every file it started with,
\* and exits with 2 if errors > 0 and with 0 otherwise.
C4_RunCompletes ==
    /\ [][ (errors' > errors) =>
             /\ errors' = errors + 1
             /\ phase' = "running"
             /\ \E p \in pending : pending' = pending \ {p} ]_vars
    /\ [](phase = "done" =>
             /\ pending = {}
             /\ \A p \in AllPaths : fsStart[p].exists => st[p] # "none"
             /\ exit_code = (IF errors > 0 THEN 2 ELSE 0))
    /\ ((phase = "running") ~> (phase = "done"))

C4_Witness ==
    /\ phase = "done" /\ errors > 0 /\ exit_code = 2
    /\ converted + skipped > 0
    /\ Cardinality(HandledSoFar) = 2

\* the skip-folder names of the run, in lower case
SkipNames ==
    IF tool = "convert" THEN { Lower(skip_folder[i]) : i \in DOMAIN skip_folder }
                        ELSE {"thumbnails"}

UnderSkipFolder(p) == \E i \in DOMAIN p.dir : Lower(p.dir[i]) \in SkipNames

\* C5: a file under a directory whose name equals a skip-folder name, compared
\* case-insensitively, is excluded in both pipelines: no destination is made
\* from it and no counter moves for it.
C5_SkipFolderExcluded ==
    \A p \in AllPaths : UnderSkipFolder(p) =>
        /\ st[p] \in {"none", "filtered"}
        /\ ~ \E d \in AllPaths : HoldsConversionOf(fs, d, p)

IsWebp(p) == Lower(p.ext) = ".webp"

\* C6 (as claimed): in both pipelines a file with the .webp extension, in any
\* case, is never taken as a source: nothing is made from it and it is
\* counted neither as processed, skipped nor error.
C6_WebpNeverSource ==
    \A p \in AllPaths : IsWebp(p) =>
        /\ st[p] \in {"none", "filtered"}
        /\ ~ \E d \in AllPaths : HoldsConversionOf(fs, d, p)

\* C6 (amended): the same for convert-to-webp only.
C6_WebpNeverSourceInConvert ==
    tool = "convert" => C6_WebpNeverSource

C6_Witness ==
    /\ tool = "convert" /\ phase = "done"
    /\ st[Root_a_WEBP] = "filtered" /\ st[Root_a_png] = "converted"

C7_Scenario ==
    /\ tool = "convert" /\ ~ overwrite /\ ~ delete_originals
    /\ skip_folder = <<"thumbnails">>
    /\ run = 1 /\ phase = "done"
    /\ Existing(fsStart) = {Root_a_png, Root_a_webp}

HasAlphaOrPaletteTransparency(i) ==
    i.mode \in {"RGBA", "LA"} \/ (i.mode = "P" /\ i.transparency)

\* C8: in both pipelines an image with an alpha channel or palette
\* transparency is encoded as RGBA and every other image as RGB.
C8_ColorNormalization ==
    stage = "saved" =>
        save_kwargs.mode = (IF HasAlphaOrPaletteTransparency(img) THEN "RGBA" ELSE "RGB")

DeleteFailures == { p \in AllPaths : st[p] = "failed_delete" }

\* C9 (as claimed): after any prefix of the traversal
\* processed + skipped + errors = the number of eligible files handled.
C9_CounterConservation ==
    phase \in {"running", "done"} =>
        converted + skipped + errors = Cardinality(HandledSoFar)

\* C9 (amended): every handled file has moved exactly one of the three
\* counters, except a file of convert-to-webp --delete-originals whose
\* conversion succeeded and whose delete step raised, which has moved both
\* converted and errors.
C9_CounterConservationAmended ==
    phase \in {"running", "done"} =>
        /\ converted + skipped + errors
             = Cardinality(HandledSoFar) + Cardinality(DeleteFailures)
        /\ ~ (tool = "convert" /\ delete_originals) => DeleteFailures = {}
        /\ deleted <= converted

C9_Witness ==
    /\ phase = "done" /\ DeleteFailures # {}
    /\ Cardinality(HandledSoFar) = 2
    /\ converted + skipped + errors = 3

\* no source of the current run carried a modification time later than the
\* clock when the run started
NoFutureSource == \A p \in EligibleAtStart : fsStart[p].mtime <= started

\* C10: at the end of a convert-to-webp run every source the run deleted has
\* its destination holding the conversion of that source.  The claim is read
\* for runs in which no file fails and no source carries a timestamp of the
\* future.
C10_NoContentLost ==
    (tool = "convert" /\ phase = "done" /\ errors = 0 /\ NoFutureSource) =>
        \A s \in AllPaths : Removed(s) => HoldsConversionOf(fs, DstConvert(s), s)

====
